---- MODULE Spec2Model ----
(***************************************************************************)
(* Model of budget_analyzer/format_parser.py: parse_format_string, the     *)
(* parser of column-mapping format strings such as                         *)
(*     {date:%m/%d/%Y}, {description}, {_}, {amount}                       *)
(* Strings are sequences of one-character strings.  The call is modelled   *)
(* as a process: split, one iteration of the for loop per step, and the    *)
(* completeness check with the construction of the FormatSpec.             *)
(***************************************************************************)
EXTENDS Integers, Sequences, FiniteSets, TLC

VARIABLES format_str, parts, idx, field_positions, date_format, result, pc

vars == <<format_str, parts, idx, field_positions, date_format, result, pc>>

-----------------------------------------------------------------------------
(* Bounds of the explored inputs *)

MaxParts == 3

MaxCols == 5

-----------------------------------------------------------------------------
(* Characters *)

UpperChars == <<"A","B","C","D","E","F","G","H","I","J","K","L","M",
                "N","O","P","Q","R","S","T","U","V","W","X","Y","Z">>

LowerChars == <<"a","b","c","d","e","f","g","h","i","j","k","l","m",
                "n","o","p","q","r","s","t","u","v","w","x","y","z">>

DigitChars == {"0","1","2","3","4","5","6","7","8","9"}

Range(s) == {s[i] : i \in 1..Len(s)}

IsUpper(c) == c \in Range(UpperChars)

IsLower(c) == c \in Range(LowerChars)

\* str.isspace for the characters of the explored inputs
IsSpace(c) == c \in {" ", "\t"}

\* the regular expression class \w
IsWord(c) == IsUpper(c) \/ IsLower(c) \/ c \in DigitChars \/ c = "_"

LowerChar(c) ==
  IF IsUpper(c) THEN LowerChars[CHOOSE i \in 1..Len(UpperChars) : UpperChars[i] = c]
  ELSE c

\* a parser that forgot to lower-case the identifier
LowerIdentity(s) == s

\* str.lower()
Lower(s) == [i \in 1..Len(s) |-> LowerChar(s[i])]

-----------------------------------------------------------------------------
(* str.split(','), str.strip() *)

RECURSIVE Split(_)
Split(s) ==
  IF \E i \in 1..Len(s) : s[i] = ","
  THEN LET i == CHOOSE k \in 1..Len(s) : s[k] = "," /\ \A j \in 1..(k-1) : s[j] # ","
       IN  <<SubSeq(s, 1, i-1)>> \o Split(SubSeq(s, i+1, Len(s)))
  ELSE <<s>>

\* number of leading whitespace characters
LeadingSpaces(s) ==
  IF \A i \in 1..Len(s) : IsSpace(s[i]) THEN Len(s)
  ELSE (CHOOSE k \in 1..Len(s) : ~IsSpace(s[k]) /\ \A j \in 1..(k-1) : IsSpace(s[j])) - 1

TrailingSpaces(s) ==
  IF \A i \in 1..Len(s) : IsSpace(s[i]) THEN Len(s)
  ELSE Len(s) - (CHOOSE k \in 1..Len(s) : ~IsSpace(s[k]) /\ \A j \in (k+1)..Len(s) : IsSpace(s[j]))

Strip(s) ==
  IF LeadingSpaces(s) = Len(s) THEN <<>>
  ELSE SubSeq(s, LeadingSpaces(s) + 1, Len(s) - TrailingSpaces(s))

\* parts = [p.strip() for p in format_str.split(',')]
SplitParts(s) == LET raw == Split(s) IN [i \in 1..Len(raw) |-> Strip(raw[i])]

-----------------------------------------------------------------------------
(* field_pattern = re.compile(r'\{(\w+)(?::([^}]+))?\}'), used with .match *)

\* length of the longest run of word characters of s that starts at i
WordRun(s, i) ==
  IF \A k \in i..Len(s) : IsWord(s[k]) THEN Len(s) - i + 1
  ELSE (CHOOSE k \in i..Len(s) : ~IsWord(s[k]) /\ \A j \in i..(k-1) : IsWord(s[j])) - i

\* the absent group (None); a captured sub-format is never empty
None == <<>>

NoMatch == [matched |-> FALSE, name |-> <<>>, fmt |-> None]

\* the pattern tried at position b of part.
\* \w+ and [^}]+ are greedy and what follows each cannot be matched by a
\* character they gave back, so the groups are the maximal runs.
MatchAt(part, b) ==
  IF Len(part) < b + 2 \/ part[b] # "{" THEN NoMatch
  ELSE LET n == WordRun(part, b + 1)
           p == b + 1 + n
       IN  IF n = 0 \/ p > Len(part) THEN NoMatch
           ELSE IF part[p] = "}" THEN [matched |-> TRUE, name |-> SubSeq(part, b+1, p-1), fmt |-> None]
           ELSE IF part[p] = ":" /\ \E q \in (p+2)..Len(part) :
                                       part[q] = "}" /\ \A j \in (p+1)..(q-1) : part[j] # "}"
                THEN LET q == CHOOSE k \in (p+2)..Len(part) :
                                 part[k] = "}" /\ \A j \in (p+1)..(k-1) : part[j] # "}"
                     IN  [matched |-> TRUE, name |-> SubSeq(part, b+1, p-1), fmt |-> SubSeq(part, p+1, q-1)]
                ELSE NoMatch

\* a parser that used field_pattern.search: the first position that matches
MatchSearch(part) ==
  IF \E b \in 1..Len(part) : MatchAt(part, b).matched
  THEN MatchAt(part, CHOOSE b \in 1..Len(part) :
                       MatchAt(part, b).matched /\ \A c \in 1..(b-1) : ~MatchAt(part, c).matched)
  ELSE NoMatch

\* field_pattern.match(part): anchored at the start, not at the end
Match(part) == MatchAt(part, 1)

-----------------------------------------------------------------------------
(* Field names *)

F_date == <<"d","a","t","e">>

F_description == <<"d","e","s","c","r","i","p","t","i","o","n">>

F_amount == <<"a","m","o","u","n","t">>

F_location == <<"l","o","c","a","t","i","o","n">>

F_skip == <<"_">>

\* date_format = '%m/%d/%Y'  # Default
DefaultDateFormat == <<"%","m","/","%","d","/","%","Y">>

valid_fields == {F_date, F_description, F_amount, F_location}

required == {F_date, F_description, F_amount}

-----------------------------------------------------------------------------
(* The body of parse_format_string *)

\* Optional[int]: None is <<>>, the integer i is <<i>>
Some(i) == <<i>>

NoError == [kind |-> "none"]

InvalidFormat(i, part) ==
  [kind |-> "ValueError", error |-> "Invalid format", column |-> i, part |-> part]

UnknownField(field_name, i) ==
  [kind |-> "ValueError", error |-> "Unknown field", field |-> field_name, column |-> i,
   valid |-> valid_fields]

DuplicateField(field_name, i) ==
  [kind |-> "ValueError", error |-> "Duplicate field", field |-> field_name, column |-> i]

MissingFields(missing) ==
  [kind |-> "ValueError", error |-> "Missing required fields", missing |-> missing]

EmptyFormat == [kind |-> "ValueError", error |-> "Empty format string"]

\* a parser that reports the identifier as written
FieldNameRaw(m) == m.name

\* field_name = match.group(1).lower()
FieldName(m) == Lower(m.name)

\* if field_name == '_': continue
IsPlaceholder(field_name) == field_name = F_skip

\* if field_name not in valid_fields
IsUnknown(field_name) == field_name \notin valid_fields

\* a parser without the duplicate check
IsDuplicateNever(fp, field_name) == FALSE

\* if field_name in field_positions
IsDuplicate(fp, field_name) == field_name \in DOMAIN fp

\* a parser that numbers the mapped fields only, skipped columns not counted
RecordDense(fp, field_name, i) ==
  [f \in DOMAIN fp \cup {field_name} |-> IF f = field_name THEN Cardinality(DOMAIN fp) ELSE fp[f]]

\* field_positions[field_name] = idx
Record(fp, field_name, i) ==
  [f \in DOMAIN fp \cup {field_name} |-> IF f = field_name THEN i ELSE fp[f]]

\* a parser that takes the sub-format of any field as the date format
CaptureAnyFormat(field_name, format_spec, df) ==
  IF format_spec # None THEN format_spec ELSE df

\* if field_name == 'date' and format_spec: date_format = format_spec
CaptureDateFormat(field_name, format_spec, df) ==
  IF field_name = F_date /\ format_spec # None THEN format_spec ELSE df

\* a parser that passes over a malformed segment instead of raising
LoopBodyLenient(part, i, fp, df) ==
  LET m == Match(part)
      field_name == FieldName(m)
      same(e) == [error |-> e, field_positions |-> fp, date_format |-> df]
  IN  IF ~m.matched THEN same(NoError)
      ELSE IF IsPlaceholder(field_name) THEN same(NoError)
      ELSE IF IsUnknown(field_name) THEN same(UnknownField(field_name, i))
      ELSE IF IsDuplicate(fp, field_name) THEN same(DuplicateField(field_name, i))
      ELSE [error |-> NoError,
            field_positions |-> Record(fp, field_name, i),
            date_format |-> CaptureDateFormat(field_name, m.fmt, df)]

\* one iteration of "for idx, part in enumerate(parts)"; i is the zero-based idx
LoopBody(part, i, fp, df) ==
  LET m == Match(part)
      field_name == FieldName(m)
      same(e) == [error |-> e, field_positions |-> fp, date_format |-> df]
  IN  IF ~m.matched THEN same(InvalidFormat(i, part))
      ELSE IF IsPlaceholder(field_name) THEN same(NoError)
      ELSE IF IsUnknown(field_name) THEN same(UnknownField(field_name, i))
      ELSE IF IsDuplicate(fp, field_name) THEN same(DuplicateField(field_name, i))
      ELSE [error |-> NoError,
            field_positions |-> Record(fp, field_name, i),
            date_format |-> CaptureDateFormat(field_name, m.fmt, df)]

\* a parser that requires location too
MissingWithLocation(fp) == valid_fields \ DOMAIN fp

\* missing = required - set(field_positions.keys())
Missing(fp) == required \ DOMAIN fp

\* a parser that never fills location_column
LocationColumnNone(fp) == None

\* field_positions.get('location')
LocationColumn(fp) == IF F_location \in DOMAIN fp THEN Some(fp[F_location]) ELSE None

\* lines 89-102: the completeness check and the returned FormatSpec
Finalize(fp, df) ==
  IF Missing(fp) # {} THEN MissingFields(Missing(fp))
  ELSE [kind |-> "FormatSpec",
        date_column |-> fp[F_date],
        date_format |-> df,
        description_column |-> fp[F_description],
        amount_column |-> fp[F_amount],
        location_column |-> LocationColumn(fp),
        has_header |-> TRUE]

\* field_positions = {}
EmptyDict == [f \in {} |-> 0]

\* the for loop from position i (zero-based) to the end, then lines 89-102
RECURSIVE RunLoop(_, _, _, _)
RunLoop(ps, i, fp, df) ==
  IF i >= Len(ps) THEN Finalize(fp, df)
  ELSE LET r == LoopBody(ps[i+1], i, fp, df)
       IN  IF r.error # NoError THEN r.error
           ELSE RunLoop(ps, i+1, r.field_positions, r.date_format)

\* the whole call, as a function of the format string
parse_format_string(s) ==
  LET ps == SplitParts(s)
  IN  IF Len(ps) = 0 THEN EmptyFormat
      ELSE RunLoop(ps, 0, EmptyDict, DefaultDateFormat)

-----------------------------------------------------------------------------
(* The explored format strings *)

\* segments of every kind: plain, upper case, with sub-format, with
\* surrounding blanks, with trailing characters, unknown, malformed, empty
PoolAll == {
  <<"{","d","a","t","e","}">>,
  <<"{","D","A","T","E",":","%","Y","}">>,
  <<" ","{","D","e","s","c","r","i","p","t","i","o","n",":","z","}"," ">>,
  <<"{","a","m","o","u","n","t","}","{","x","}">>,
  <<"{","C","o","l","o","r","}">>,
  <<"x","{","d","a","t","e","}">>,
  <<"{","d","a","t","e",":","}">>,
  <<>>,
  <<"{","_",":","q","}","x">> }

\* well-formed segments only
PoolGood == {
  <<"{","d","a","t","e",":","%","Y","}">>,
  <<"{","d","e","s","c","r","i","p","t","i","o","n","}">>,
  <<"{","a","m","o","u","n","t","}">>,
  <<"{","l","o","c","a","t","i","o","n","}">>,
  <<"{","_","}">> }

\* well-formed layouts: no field twice, {_} any number of times
Layouts(n) ==
  {segs \in UNION {[1..k -> PoolGood] : k \in 0..n} :
     \A i, j \in 1..Len(segs) : (i # j /\ segs[i] = segs[j]) => segs[i] = <<"{","_","}">>}

\* empty and whitespace-only strings
Blank == {<<>>, <<" ">>, <<" ", "\t">>}

RECURSIVE Join(_, _)
Join(segs, sep) ==
  IF Len(segs) = 0 THEN <<>>
  ELSE IF Len(segs) = 1 THEN segs[1]
  ELSE segs[1] \o sep \o Join(Tail(segs), sep)

SeqsUpTo(S, n) == UNION {[1..k -> S] : k \in 0..n}

Inputs ==
  {Join(segs, <<",">>) : segs \in SeqsUpTo(PoolAll, MaxParts)}
  \cup {Join(segs, <<",", " ">>) : segs \in Layouts(MaxCols)}
  \cup Blank

-----------------------------------------------------------------------------
(* The call as a process *)

NoResult == [kind |-> "none"]

Init ==
  /\ format_str \in Inputs
  /\ parts = <<>>
  /\ idx = 0
  /\ field_positions = EmptyDict
  /\ date_format = DefaultDateFormat
  /\ result = NoResult
  /\ pc = "split"

\* lines 54-60
Start ==
  /\ pc = "split"
  /\ parts' = SplitParts(format_str)
  /\ IF Len(parts') = 0
     THEN result' = EmptyFormat /\ pc' = "done"
     ELSE result' = result /\ pc' = "loop"
  /\ field_positions' = EmptyDict
  /\ date_format' = DefaultDateFormat
  /\ UNCHANGED <<format_str, idx>>

\* lines 62-87: one iteration
Iterate ==
  /\ pc = "loop"
  /\ idx < Len(parts)
  /\ LET r == LoopBody(parts[idx+1], idx, field_positions, date_format)
     IN  IF r.error # NoError
         THEN /\ result' = r.error
              /\ pc' = "done"
              /\ UNCHANGED <<idx, field_positions, date_format>>
         ELSE /\ idx' = idx + 1
              /\ field_positions' = r.field_positions
              /\ date_format' = r.date_format
              /\ UNCHANGED <<result, pc>>
  /\ UNCHANGED <<format_str, parts>>

\* lines 89-102: the loop is exhausted
Finish ==
  /\ pc = "loop"
  /\ idx = Len(parts)
  /\ result' = Finalize(field_positions, date_format)
  /\ pc' = "done"
  /\ UNCHANGED <<format_str, parts, idx, field_positions, date_format>>

Next == Start \/ Iterate \/ Finish

Spec == Init /\ [][Next]_vars

-----------------------------------------------------------------------------
(* The grammar of a segment, stated on the text and not through the parser *)

Done == pc = "done"

\* s is exactly {identifier} or {identifier:subformat}
ExactForm(s) ==
  /\ Len(s) >= 3
  /\ s[1] = "{"
  /\ s[Len(s)] = "}"
  /\ \A i \in 2..(Len(s)-1) : s[i] # "}"
  /\ \/ \A i \in 2..(Len(s)-1) : IsWord(s[i])
     \/ \E c \in 3..(Len(s)-2) : s[c] = ":" /\ \A i \in 2..(c-1) : IsWord(s[i])

HasBrace(s) == \E i \in 1..Len(s) : s[i] = "}"

\* the text up to and including the first closing brace
Core(s) == SubSeq(s, 1, CHOOSE k \in 1..Len(s) : s[k] = "}" /\ \A j \in 1..(k-1) : s[j] # "}")

\* the identifier of an exact brace group c, as written
Ident(c) ==
  LET e == IF \E i \in 2..Len(c) : c[i] = ":"
           THEN CHOOSE i \in 2..Len(c) : c[i] = ":" /\ \A j \in 2..(i-1) : c[j] # ":"
           ELSE Len(c)
  IN  SubSeq(c, 2, e-1)

LowerText(s) == [i \in 1..Len(s) |-> LowerChar(s[i])]

\* what the grammar says of the trimmed segment s: ok when s is a
\* well-formed brace group followed by anything, and then the brace group,
\* its identifier as written and lower-cased (tag), and its sub-format
SegInfo(s) ==
  IF ~HasBrace(s) THEN [ok |-> FALSE, text |-> s, core |-> <<>>, ident |-> <<>>, tag |-> <<>>, fmt |-> None]
  ELSE LET c == Core(s)
       IN  IF ~ExactForm(c)
           THEN [ok |-> FALSE, text |-> s, core |-> <<>>, ident |-> <<>>, tag |-> <<>>, fmt |-> None]
           ELSE LET id == Ident(c)
                IN  [ok |-> TRUE, text |-> s, core |-> c, ident |-> id, tag |-> LowerText(id),
                     fmt |-> IF Len(id) + 2 = Len(c) THEN None
                             ELSE SubSeq(c, Len(id) + 3, Len(c) - 1)]

RECURSIVE Infos(_)
Infos(ps) == IF Len(ps) = 0 THEN <<>> ELSE <<SegInfo(ps[1])>> \o Infos(Tail(ps))

\* the grammar's reading of the trimmed segments of the input
Segs == Infos(parts)

IsTagged(T, k, f) == T[k].ok /\ T[k].tag = f

Occ(T, f) == {k \in 1..Len(T) : IsTagged(T, k, f)}

\* segment k (1-based) passes the structural, vocabulary and duplicate checks
SegValid(T, k) ==
  /\ T[k].ok
  /\ \/ T[k].tag = F_skip
     \/ /\ T[k].tag \in valid_fields
        /\ \A j \in 1..(k-1) : T[j].tag # T[k].tag

\* the number of leading segments that pass the checks
RECURSIVE ValidPrefix(_, _)
ValidPrefix(T, k) ==
  IF k < Len(T) /\ SegValid(T, k + 1) THEN ValidPrefix(T, k + 1) ELSE k

AllValid(T) == ValidPrefix(T, 0) = Len(T)

\* the leftmost failing segment, when there is one
FirstBad(T) == ValidPrefix(T, 0) + 1

\* the position (1-based) of the only segment tagged f
TheOcc(T, f) == CHOOSE k \in 1..Len(T) : IsTagged(T, k, f)

Recorded(T) == {T[k].tag : k \in 1..Len(T)} \cap valid_fields

IsSpec == result.kind = "FormatSpec"

IsError(e) == result.kind = "ValueError" /\ result.error = e

-----------------------------------------------------------------------------
(* C1 *)

WellFormedOnce(T) ==
  /\ \A k \in 1..Len(T) : T[k].ok /\ T[k].tag \in valid_fields \cup {F_skip}
  /\ \A f \in required : Cardinality(Occ(T, f)) = 1
  /\ Cardinality(Occ(T, F_location)) <= 1

\* C1: a format string of well-formed segments with exactly one date, one
\* description and one amount, any number of {_} and at most one location is
\* parsed successfully, and the three columns are distinct and are the
\* zero-based positions of their segments, skipped segments counted.
C1_Positions ==
  Done =>
    LET T == Segs
    IN  WellFormedOnce(T) =>
          /\ IsSpec
          /\ result.date_column = TheOcc(T, F_date) - 1
          /\ result.description_column = TheOcc(T, F_description) - 1
          /\ result.amount_column = TheOcc(T, F_amount) - 1
          /\ Cardinality({result.date_column, result.description_column,
                          result.amount_column}) = 3

\* a successful parse where a {_} segment and a location precede a required
\* field and amount precedes date
C1_Witness ==
  /\ Done /\ IsSpec
  /\ LET T == Segs
     IN  /\ WellFormedOnce(T)
         /\ \E k \in Occ(T, F_skip) : \E f \in required : k < TheOcc(T, f)
         /\ \E k \in Occ(T, F_location) : \E f \in required : k < TheOcc(T, f)
         /\ TheOcc(T, F_amount) < TheOcc(T, F_date)

-----------------------------------------------------------------------------
(* C2 *)

IsBlank(s) == \A i \in 1..Len(s) : IsSpace(s[i])

\* C2: the empty string and a whitespace-only string are rejected with the
\* error "Empty format string" and with no other error.
C2_EmptyFormatError ==
  (Done /\ IsBlank(format_str)) => result = EmptyFormat

-----------------------------------------------------------------------------
(* C3 *)

\* segment k repeats a field of an earlier segment, all earlier ones valid
IsRepeat(T, k) ==
  /\ ValidPrefix(T, 0) = k - 1
  /\ T[k].ok
  /\ T[k].tag \in valid_fields
  /\ \E j \in 1..(k-1) : T[j].tag = T[k].tag

\* C3: when date, description, amount or location occurs again at position
\* idx after valid segments, the parse fails with the duplicate-field error
\* naming the tag and idx; a duplicate-field error never names '_'.
C3_Duplicate ==
  Done =>
    LET T == Segs
    IN  /\ \A k \in 1..Len(T) : IsRepeat(T, k) => result = DuplicateField(T[k].tag, k - 1)
        /\ IsError("Duplicate field") => result.field \in valid_fields

\* a repeated tag reported at the third segment or later, after a {_} segment
C3_Witness ==
  /\ Done /\ IsError("Duplicate field")
  /\ LET T == Segs
     IN  \E k \in 3..Len(T) : IsRepeat(T, k) /\ Occ(T, F_skip) # {}

\* repeated {_} segments in a successful parse
C3_SkipWitness == Done /\ IsSpec /\ Cardinality(Occ(Segs, F_skip)) >= 2

-----------------------------------------------------------------------------
(* C4 *)

\* C4: when every segment passes the per-segment checks, the parse fails
\* with the missing-required-fields error listing exactly
\* {date, description, amount} minus the tags that occurred when that set
\* is not empty, and succeeds when it is empty.
C4_Missing ==
  Done =>
    LET T == Segs
    IN  AllValid(T) =>
          IF required \ Recorded(T) # {}
          THEN result = MissingFields(required \ Recorded(T))
          ELSE IsSpec

\* a parse that misses one required field while location is given
C4_Witness ==
  /\ Done /\ IsError("Missing required fields")
  /\ LET T == Segs
     IN  /\ AllValid(T)
         /\ Cardinality(required \ Recorded(T)) = 1
         /\ F_location \in Recorded(T)

-----------------------------------------------------------------------------
(* C5 *)

\* segment k carries an identifier outside the vocabulary, all earlier valid
IsForeign(T, k) ==
  /\ ValidPrefix(T, 0) = k - 1
  /\ T[k].ok
  /\ T[k].tag \notin valid_fields \cup {F_skip}

\* C5: a structurally valid segment at position idx whose lower-cased
\* identifier is neither '_' nor a known field, after valid segments, makes
\* the parse fail with the unknown-field error naming the lower-cased
\* identifier and idx.
C5_Unknown ==
  Done =>
    LET T == Segs
    IN  \A k \in 1..Len(T) : IsForeign(T, k) => result = UnknownField(T[k].tag, k - 1)

\* an unknown identifier written with an upper-case letter, not in first position
C5_Witness ==
  /\ Done /\ IsError("Unknown field")
  /\ LET T == Segs
     IN  \E k \in 2..Len(T) : IsForeign(T, k) /\ T[k].ident # T[k].tag

-----------------------------------------------------------------------------
(* C6 *)

UpperChar(c) ==
  IF IsLower(c) THEN UpperChars[CHOOSE i \in 1..Len(LowerChars) : LowerChars[i] = c]
  ELSE c

ToggleChar(c) == IF IsUpper(c) THEN LowerChar(c) ELSE UpperChar(c)

\* raw segment r with the characters at the positions in span changed by
\* how: "upper", "lower" or "toggle"
Recase(r, span, how) ==
  [i \in 1..Len(r) |->
     IF i \notin span THEN r[i]
     ELSE IF how = "upper" THEN UpperChar(r[i])
     ELSE IF how = "lower" THEN LowerChar(r[i])
     ELSE ToggleChar(r[i])]

\* the segments R joined again, segment k replaced by seg
WithSegment(R, k, seg) ==
  Join([j \in 1..Len(R) |-> IF j = k THEN seg ELSE R[j]], <<",">>)

\* the inputs that differ from the input with raw segments R in the letter
\* case of one identifier: all upper, all lower, first or last letter changed
CaseVariants(R, T) ==
  UNION {
    IF ~T[k].ok THEN {}
    ELSE LET b == LeadingSpaces(R[k]) + 2
             e == LeadingSpaces(R[k]) + 1 + Len(T[k].ident)
         IN  {WithSegment(R, k, Recase(R[k], b..e, "upper")),
              WithSegment(R, k, Recase(R[k], b..e, "lower")),
              WithSegment(R, k, Recase(R[k], {b}, "toggle")),
              WithSegment(R, k, Recase(R[k], {e}, "toggle"))}
    : k \in 1..Len(R)}

C6_ErrorWitness ==
  /\ Done /\ IsError("Unknown field")
  /\ \E k \in 1..Len(parts) : Segs[k].ident # Segs[k].tag

-----------------------------------------------------------------------------
(* C7 *)

\* C7: on success date_format is the sub-format of the date segment when it
\* has one and '%m/%d/%Y' otherwise; the sub-format of another segment has
\* no effect.
C7_DateFormat ==
  (Done /\ IsSpec) =>
    LET T == Segs
    IN  /\ Occ(T, F_date) # {}
        /\ result.date_format =
             IF T[TheOcc(T, F_date)].fmt # None
             THEN T[TheOcc(T, F_date)].fmt
             ELSE DefaultDateFormat

\* success with the default while another segment carries a sub-format
C7_Witness ==
  /\ Done /\ IsSpec
  /\ LET T == Segs
     IN  /\ T[TheOcc(T, F_date)].fmt = None
         /\ \E k \in 1..Len(T) : T[k].ok /\ T[k].tag # F_date /\ T[k].fmt # None
  /\ result.date_format = DefaultDateFormat

\* success with the sub-format of the date segment
C7_SubFormatWitness ==
  /\ Done /\ IsSpec
  /\ Segs[TheOcc(Segs, F_date)].fmt # None
  /\ result.date_format # DefaultDateFormat

-----------------------------------------------------------------------------
(* C8 *)

\* C8: on success location_column is present exactly when a location
\* segment occurred, and then it is that segment's zero-based position and
\* differs from the date, description and amount columns.
C8_Location ==
  (Done /\ IsSpec) =>
    LET T == Segs
    IN  IF Occ(T, F_location) = {}
        THEN result.location_column = None
        ELSE /\ result.location_column = Some(TheOcc(T, F_location) - 1)
             /\ TheOcc(T, F_location) - 1 \notin
                  {result.date_column, result.description_column, result.amount_column}

\* success with a location column that is not the last one
C8_Witness ==
  /\ Done /\ IsSpec
  /\ LET T == Segs
     IN  Occ(T, F_location) # {} /\ TheOcc(T, F_location) < Len(T)
  /\ result.location_column # None

\* success without location
C8_AbsentWitness ==
  Done /\ IsSpec /\ Occ(Segs, F_location) = {} /\ result.location_column = None

-----------------------------------------------------------------------------
(* C9 *)

\* the error of a failing segment k by the order structure, vocabulary,
\* duplication
SegmentError(T, k) ==
  IF ~T[k].ok THEN InvalidFormat(k - 1, T[k].text)
  ELSE IF T[k].tag \notin valid_fields THEN UnknownField(T[k].tag, k - 1)
  ELSE DuplicateField(T[k].tag, k - 1)

\* C9: the reported error is that of the leftmost failing segment, decided
\* inside the segment by structure, then vocabulary, then duplication; the
\* missing-required-fields error is reported only when no segment fails.
C9_ValidationOrder ==
  Done =>
    LET T == Segs
    IN  /\ ~AllValid(T) => result = SegmentError(T, FirstBad(T))
        /\ IsError("Missing required fields") => AllValid(T)

\* the leftmost of two failing segments of different kinds is reported, and
\* a required field is missing too
C9_Witness ==
  /\ Done
  /\ LET T == Segs
     IN  /\ ~AllValid(T)
         /\ FirstBad(T) >= 2
         /\ T[FirstBad(T)].ok
         /\ \E j \in (FirstBad(T)+1)..Len(T) : ~T[j].ok
         /\ required \ Recorded(T) # {}
         /\ result = SegmentError(T, FirstBad(T))

-----------------------------------------------------------------------------
(* C10 *)

HasTrailing(T, k) == T[k].ok /\ Len(T[k].core) < Len(T[k].text)

\* a non-blank character stands where the opening brace should
BadStart(s) == Len(s) > 0 /\ s[1] # "{"

\* {identifier:} : a colon and no sub-format
EmptySubFormat(s) ==
  /\ Len(s) >= 4
  /\ s[1] = "{"
  /\ \E c \in 3..(Len(s)-1) :
        /\ s[c] = ":" /\ s[c+1] = "}"
        /\ \A i \in 2..(c-1) : IsWord(s[i])

\* C10: the structural match is anchored at the start only: a segment that is
\* a valid brace group followed by trailing characters gives the result of
\* the same input without the trailing characters, and a segment with a
\* non-blank character before the opening brace or with an empty sub-format
\* is rejected with the invalid-format error at its column.
C10_Anchoring ==
  Done =>
    LET T == Segs
    IN  \A k \in 1..Len(T) :
          /\ HasTrailing(T, k) =>
               parse_format_string(WithSegment(Split(format_str), k, T[k].core)) = result
          /\ (ValidPrefix(T, 0) >= k - 1 /\ (BadStart(parts[k]) \/ EmptySubFormat(parts[k])))
               => result = InvalidFormat(k - 1, parts[k])

\* a successful parse of an input with a second brace group after the first
C10_Witness ==
  /\ Done /\ IsSpec
  /\ \E k \in 1..Len(parts) : HasTrailing(Segs, k) /\ parts[k][Len(parts[k])] = "}"

\* a rejected leading character, after a valid segment
C10_BadStartWitness ==
  /\ Done
  /\ \E k \in 2..Len(parts) : BadStart(parts[k]) /\ HasBrace(parts[k])
                                /\ result = InvalidFormat(k - 1, parts[k])

\* a rejected empty sub-format
C10_EmptySubWitness ==
  /\ Done
  /\ \E k \in 1..Len(parts) : EmptySubFormat(parts[k])
                                /\ result = InvalidFormat(k - 1, parts[k])

====
